---- MODULE Spec2Model ----
(***************************************************************************)
(* A model of two parts of wasmCloud:                                      *)
(*   - the link registry `Links` of crates/host/src/wasmbus/links.rs       *)
(*     (specification SpecLinks);                                          *)
(*   - one run of `handle_start_provider` of                               *)
(*     crates/wash-lib/src/cli/start.rs against a lattice that answers     *)
(*     its calls and publishes events, or of `handle_scale_actor` of       *)
(*     crates/wash-lib/src/cli/scale.rs (specifications SpecStart and      *)
(*     FairSpecStart).                                                     *)
(***************************************************************************)
EXTENDS Integers, Sequences, FiniteSets, TLC

VARIABLES
    links,      \* Links.links : HashMap<LinkKey, HashSet<Value>>
    prev,       \* the map as it was when the last registry call was made
    op,         \* the last registry call and its argument
    ret,        \* what the last registry call returned
    \* one run of handle_start_provider
    pc,             \* where the run is: the await it is suspended at
    cmd,            \* cmd: StartProviderCommand
    provider_ref,   \* let provider_ref (start.rs:73)
    host,           \* let host (start.rs:79)
    suitable_hosts, \* let suitable_hosts (start.rs:82), once the auction returned
    config_json,    \* let config_json (start.rs:106)
    subscribed,     \* whether `receiver` (start.rs:122) is open
    queue,          \* the events delivered to `receiver` and not read yet
    calls,          \* the requests the run has made of the lattice, in order
    ack,            \* let ack (start.rs:131), once received
    clock,          \* ticks elapsed since the wait began
    waitResult,     \* what wait_for_provider_start_event returned
    matched,        \* history: the event that ended the wait
    discarded,      \* history: the wait read and dropped some event
    early,          \* history: the first matching event delivered to `receiver`
                    \* before the wait began
    scale,          \* one run of handle_scale_actor: cmd and its locals
    outcome         \* the Result<CommandOutput> the run returned

linkVars == <<links, prev, op, ret>>
startVars ==
    <<pc, cmd, provider_ref, host, suitable_hosts, config_json, subscribed,
      queue, calls, ack, clock, waitResult, matched, discarded, early, scale,
      outcome>>
vars == <<linkVars, startVars>>

-----------------------------------------------------------------------------
(* Bounds and input universes of the registry                              *)

\* The registry never holds more than MaxLinks links in the model.
MaxLinks == 3

SourceIds == {"comp-a", "comp-b"}
Targets == {"t1", "t2"}
LinkNames == {"default"}
WitNamespaces == {"wasi"}
WitPackages == {"http", "keyvalue"}

\* (source_id, wit_package) of the links the model inserts; remove is also
\* called with keys of comp-b, which never has a link.
LinkSlots == {<<"comp-a", "http">>, <<"comp-a", "keyvalue">>}

\* InterfaceLinkDefinition.interfaces is a Vec<WitInterface>: order and
\* repetition are part of the link.
InterfaceLists ==
    { <<>>,
      <<"incoming-handler">>,
      <<"outgoing-handler">>,
      <<"incoming-handler", "incoming-handler">>,
      <<"incoming-handler", "outgoing-handler">>,
      <<"outgoing-handler", "incoming-handler">> }

\* The InterfaceLinkDefinition values callers pass in.
LinkDefs ==
    { [source_id |-> s[1], target |-> t, name |-> n, wit_namespace |-> ns,
       wit_package |-> s[2], interfaces |-> is] :
        s \in LinkSlots, t \in Targets, n \in LinkNames,
        ns \in WitNamespaces, is \in InterfaceLists }

\* The full links remove is called with: the key reads neither the target nor
\* the interfaces of the link it is built from.
RemoveLinkArgs ==
    { l \in LinkDefs :
        /\ l.target = "t2"
        /\ l.interfaces \in {<<>>, <<"outgoing-handler", "incoming-handler">>} }

\* InterfaceLinkDefinition::default(), with the four identity strings set.
DefaultLink(source_id, name, wit_namespace, wit_package) ==
    [source_id |-> source_id, target |-> "", name |-> name,
     wit_namespace |-> wit_namespace, wit_package |-> wit_package,
     interfaces |-> <<>>]

-----------------------------------------------------------------------------
(* LinkKey                                                                 *)

\* impl From<InterfaceLinkDefinition> for LinkKey
LinkKeyFrom(link) == [link |-> link]

\* LinkKey::new
LinkKeyNew(source_id, name, wit_namespace, wit_package) ==
    [link |-> DefaultLink(source_id, name, wit_namespace, wit_package)]

KeyIdNoPackage(key) ==
    <<key.link.source_id, key.link.name, key.link.wit_namespace, "">>

\* What PartialEq and Hash of LinkKey read: two keys are the same key of the
\* HashMap exactly when their KeyId is equal.
KeyId(key) ==
    <<key.link.source_id, key.link.name, key.link.wit_namespace,
      key.link.wit_package>>

-----------------------------------------------------------------------------
(* Value                                                                   *)

\* impl From<Arc<InterfaceLinkDefinition>> for Value: the Vec is collected
\* into a BTreeSet.
ValueFrom(link) ==
    [link |-> link,
     interfaces |-> {link.interfaces[i] : i \in DOMAIN link.interfaces}]

-----------------------------------------------------------------------------
(* Links                                                                   *)

ConflictMsg ==
    "Links between the same component and package must have disjoint (non overlapping) interfaces"

Ok == [tag |-> "Ok"]
Err(msg) == [tag |-> "Err", msg |-> msg]

\* Links::new
EmptyLinks == [k \in {} |-> {}]

AnyIntersectsOthers(current, val) ==
    \E v \in current \ {val} : Cardinality(v.interfaces \cap val.interfaces) > 0

AnyIntersectsCountGe0(current, val) ==
    \E v \in current : Cardinality(v.interfaces \cap val.interfaces) >= 0

AnyIntersectsFirstOnly(current, val) ==
    current # {} /\
    LET v == CHOOSE x \in current : TRUE
    IN  Cardinality(v.interfaces \cap val.interfaces) > 0

\* current.iter().map(|val| &val.interfaces)
\*        .any(|i| i.intersection(&val.interfaces).count() > 0)
AnyIntersects(current, val) ==
    \E v \in current : Cardinality(v.interfaces \cap val.interfaces) > 0

InsertValueReplacing(m, k, val) ==
    [x \in DOMAIN m \cup {k} |-> IF x = k THEN {val} ELSE m[x]]

\* current.insert(val) on an occupied entry, entry.insert(HashSet::from([val]))
\* on a vacant one.
InsertValue(m, k, val) ==
    [x \in DOMAIN m \cup {k} |->
        IF x = k THEN (IF k \in DOMAIN m THEN m[k] \cup {val} ELSE {val})
        ELSE m[x]]

InsertNoCheck(m, link) ==
    [links |-> InsertValue(m, KeyId(LinkKeyFrom(link)), ValueFrom(link)),
     ret |-> Ok]

InsertOverwriteOnConflict(m, link) ==
    LET val == ValueFrom(link)
        k == KeyId(LinkKeyFrom(link))
    IN  IF k \in DOMAIN m /\ AnyIntersects(m[k], val)
        THEN [links |-> InsertValueReplacing(m, k, val), ret |-> Ok]
        ELSE [links |-> InsertValue(m, k, val), ret |-> Ok]

\* Links::insert: the map and the result it leaves.
Insert(m, link) ==
    LET val == ValueFrom(link)
        k == KeyId(LinkKeyFrom(link))
    IN  IF k \in DOMAIN m /\ AnyIntersects(m[k], val)
        THEN [links |-> m, ret |-> Err(ConflictMsg)]
        ELSE [links |-> InsertValue(m, k, val), ret |-> Ok]

RemoveKeepsEmptySlot(m, key) ==
    LET k == KeyId(key)
    IN  [links |-> [x \in DOMAIN m |-> IF x = k THEN {} ELSE m[x]],
         ret |-> [tag |-> "Bool", val |-> k \in DOMAIN m]]

RemoveOneValue(m, key) ==
    LET k == KeyId(key)
    IN  IF k \in DOMAIN m
        THEN LET v == CHOOSE x \in m[k] : TRUE
             IN  [links |-> IF m[k] = {v}
                            THEN [x \in DOMAIN m \ {k} |-> m[x]]
                            ELSE [m EXCEPT ![k] = @ \ {v}],
                  ret |-> [tag |-> "Bool", val |-> TRUE]]
        ELSE [links |-> m, ret |-> [tag |-> "Bool", val |-> FALSE]]

\* Links::remove: self.links.remove(&key.into()).is_some()
Remove(m, key) ==
    LET k == KeyId(key)
    IN  [links |-> [x \in DOMAIN m \ {k} |-> m[x]],
         ret |-> [tag |-> "Bool", val |-> k \in DOMAIN m]]

\* Links::iter: how many times the traversal yields `link`.
IterCount(m, link) ==
    Cardinality(UNION {{<<k, v>> : v \in {x \in m[k] : x.link = link}} : k \in DOMAIN m})

\* Links::iter: the links the traversal yields.
Iter(m) == {v.link : v \in UNION {m[k] : k \in DOMAIN m}}

\* Number of links stored.
Stored(m) == Cardinality(UNION {{<<k, v>> : v \in m[k]} : k \in DOMAIN m})

-----------------------------------------------------------------------------
(* The registry's calls, one at a time (a mutation holds &mut self)         *)

NoOp == [kind |-> "none"]

InitLinks ==
    /\ links = EmptyLinks
    /\ prev = EmptyLinks
    /\ op = NoOp
    /\ ret = [tag |-> "None"]

DoInsert(link) ==
    LET r == Insert(links, link)
    IN  /\ Stored(r.links) <= MaxLinks
        /\ prev' = links
        /\ op' = [kind |-> "insert", link |-> link]
        /\ links' = r.links
        /\ ret' = r.ret
        /\ UNCHANGED startVars

\* remove(link): the key is built from a full link.
DoRemoveByLink(link) ==
    LET r == Remove(links, LinkKeyFrom(link))
    IN  /\ prev' = links
        /\ op' = [kind |-> "remove", form |-> "link", key |-> LinkKeyFrom(link)]
        /\ links' = r.links
        /\ ret' = r.ret
        /\ UNCHANGED startVars

\* remove(LinkKey::new(..)): the key is built from the four strings.
DoRemoveByNew(source_id, name, wit_namespace, wit_package) ==
    LET key == LinkKeyNew(source_id, name, wit_namespace, wit_package)
        r == Remove(links, key)
    IN  /\ prev' = links
        /\ op' = [kind |-> "remove", form |-> "new", key |-> key]
        /\ links' = r.links
        /\ ret' = r.ret
        /\ UNCHANGED startVars

DoIter ==
    /\ prev' = links
    /\ op' = [kind |-> "iter"]
    /\ links' = links
    /\ ret' = [tag |-> "Iter", items |-> Iter(links)]
    /\ UNCHANGED startVars

NextLinks ==
    \/ \E link \in LinkDefs : DoInsert(link)
    \/ \E link \in RemoveLinkArgs : DoRemoveByLink(link)
    \/ \E s \in SourceIds, n \in LinkNames, ns \in WitNamespaces, p \in WitPackages :
          DoRemoveByNew(s, n, ns, p)
    \/ DoIter

-----------------------------------------------------------------------------
(* handle_start_provider: inputs and what the lattice may answer           *)

\* The receiver holds at most MaxQueue unread events in the model.
MaxQueue == 1
\* The window timeout_ms (start.rs:64-68) the wait is given, in clock ticks.
WaitTicks == 2

None == [some |-> FALSE]
Some(x) == [some |-> TRUE, val |-> x]

\* A reference is the sequence of its characters; the scheme prefix counts
\* as one.
FilePrefix == <<"file://">>
RawRefs == {<<"/", "p">>, <<"o", "c", "i">>}

Hosts == {"N1", "N2"}

\* cmd: StartProviderCommand
Commands ==
    [host_id : {None, Some("east")},
     provider_ref : RawRefs,
     link_name : {"default"},
     constraints : {None, Some(<<"arch=x86">>)},
     config_json : {None, Some("provider.json")},
     skip_wait : BOOLEAN]

NoCmd ==
    [host_id |-> None, provider_ref |-> <<>>, link_name |-> "",
     constraints |-> None, config_json |-> None, skip_wait |-> FALSE]

\* cmd: ScaleActorCommand (scale.rs:21-63); the host is always given.
ScaleCommands ==
    [host_id : {"east"},
     actor_ref : RawRefs,
     max_instances : {1},
     annotations : {None, Some(<<"team=a">>)},
     skip_wait : BOOLEAN]

NoScaleCmd ==
    [host_id |-> "", actor_ref |-> <<>>, max_instances |-> 0,
     annotations |-> None, skip_wait |-> FALSE]

\* No run of handle_scale_actor: its locals actor_ref (scale.rs:76) and host
\* (scale.rs:82) are not set.
NoScale == [cmd |-> NoScaleCmd, actor_ref |-> <<>>, host |-> ""]

NormalizeNoPrefix(ref) == ref

\* start.rs:73-77: prefix with file:// if it's an absolute path.
Normalize(ref) ==
    IF Len(ref) > 0 /\ ref[1] = "/" THEN FilePrefix \o ref ELSE ref

\* What find_host_id may return: a host, or an error.
HostLookups == {[ok |-> FALSE]} \cup {[ok |-> TRUE, host |-> h] : h \in Hosts}

\* What perform_provider_auction may return: an error, or the bids.
BidLists ==
    { <<>>,
      <<[host_id |-> "N1"]>>,
      <<[host_id |-> "N2"], [host_id |-> "N1"]>>,
      <<[host_id |-> "not a host id"]>> }
AuctionResults == {[ok |-> FALSE]} \cup {[ok |-> TRUE, bids |-> b] : b \in BidLists}

\* What start_provider may return: an error, or the host's ack.
Acks ==
    { [accepted |-> TRUE, error |-> ""],
      [accepted |-> FALSE, error |-> "host at capacity"] }
AckResults == {[ok |-> FALSE]} \cup {[ok |-> TRUE, ack |-> a] : a \in Acks}

\* What reading the configuration file may give.
ConfigFiles == {"unreadable", "not json", "{}"}

\* The event kinds the run subscribes to (start.rs:123-126).
SubscribedKinds == {"provider_started", "provider_start_failed"}

\* The events the lattice may publish. Several commands share the stream:
\* an event may be for any host, reference and link name.
EventRefs == {Normalize(r) : r \in RawRefs}
StartedEvents ==
    [kind : {"provider_started"}, host_id : Hosts, provider_ref : EventRefs,
     provider_id : {"VPROV"}, contract_id : {"wasmcloud:httpserver"},
     link_name : {"default", "backup"}]
FailedEvents ==
    [kind : {"provider_start_failed"}, host_id : Hosts, provider_ref : EventRefs,
     error : {"image not found"}]
OtherEvents == [kind : {"provider_stopped"}, host_id : {"N1"}, provider_ref : {<<"o", "c", "i">>}]
Events == StartedEvents \cup FailedEvents \cup OtherEvents

\* suitable_hosts[0].host_id.parse()
ParseHostId(s) == IF s \in Hosts THEN [ok |-> TRUE, host |-> s] ELSE [ok |-> FALSE]

\* The run's result: Ok(CommandOutput), of which the named fields are kept,
\* or Err, of which the kind of failure and the cause it carries are kept.
Output(kind, fields) == [status |-> "Ok", kind |-> kind, fields |-> fields]
Error(kind, cause) == [status |-> "Err", kind |-> kind, cause |-> cause]
NoOutcome == [status |-> "None"]

-----------------------------------------------------------------------------
(* wait_for_provider_start_event (crates/wash-lib/src/wait.rs)             *)

Continue == [tag |-> "Continue"]
TimedOut == [tag |-> "Elapsed"]

\* The wait's test of one event against the pending command's correlation
\* key (host identifier, artifact reference).
CheckEvent(e, host_id, ref) ==
    IF e.host_id = host_id /\ e.provider_ref = ref
    THEN IF e.kind = "provider_started"
         THEN [tag |-> "Success",
               info |-> [provider_id |-> e.provider_id, provider_ref |-> e.provider_ref,
                         host_id |-> e.host_id, contract_id |-> e.contract_id,
                         link_name |-> e.link_name]]
         ELSE IF e.kind = "provider_start_failed"
              THEN [tag |-> "Failure", err |-> e.error]
              ELSE Continue
    ELSE Continue

-----------------------------------------------------------------------------
(* handle_start_provider (crates/wash-lib/src/cli/start.rs), one step per   *)
(* await                                                                    *)

InitStart ==
    /\ pc = "idle"
    /\ cmd = NoCmd
    /\ provider_ref = <<>>
    /\ host = ""
    /\ suitable_hosts = None
    /\ config_json = None
    /\ subscribed = FALSE
    /\ queue = <<>>
    /\ calls = <<>>
    /\ ack = None
    /\ clock = 0
    /\ waitResult = None
    /\ matched = None
    /\ discarded = FALSE
    /\ early = None
    /\ scale = NoScale
    /\ outcome = NoOutcome

\* The function returns `out`; its locals, the receiver among them, are dropped.
Return(out) ==
    /\ pc' = "done"
    /\ outcome' = out
    /\ subscribed' = FALSE
    /\ queue' = <<>>

\* The run goes on to its next await.
Goto(next) ==
    /\ pc' = next
    /\ UNCHANGED <<outcome, subscribed, queue>>

\* handle_start_provider is called with cmd = c.
StartRun(c) ==
    /\ pc = "idle"
    /\ cmd' = c
    /\ Goto("connect")
    /\ UNCHANGED <<provider_ref, host, suitable_hosts, config_json, calls, ack,
                   clock, waitResult, matched, discarded>>
    /\ UNCHANGED <<early, scale>>
    /\ UNCHANGED linkVars

\* start.rs:69-88: the client is there (or not); the reference is normalized
\* and the host is looked up or auctioned.
ConnectReturn(connected, labels_ok) ==
    /\ pc = "connect"
    /\ IF ~connected
       THEN /\ Return(Error("connect", ""))
            /\ UNCHANGED <<provider_ref, calls>>
       ELSE /\ provider_ref' = Normalize(cmd.provider_ref)
            /\ IF cmd.host_id.some
               THEN /\ calls' = Append(calls, [call |-> "find_host_id",
                                               hint |-> cmd.host_id.val])
                    /\ Goto("find_host")
               ELSE IF cmd.constraints.some /\ ~labels_ok
               THEN /\ Return(Error("constraints", ""))
                    /\ calls' = calls
               ELSE /\ calls' = Append(calls, [call |-> "perform_provider_auction",
                                               provider_ref |-> provider_ref',
                                               link_name |-> cmd.link_name,
                                               constraints |-> cmd.constraints])
                    /\ Goto("auction")
    /\ UNCHANGED <<cmd, host, suitable_hosts, config_json, ack, clock,
                   waitResult, matched, discarded>>
    /\ UNCHANGED <<early, scale>>
    /\ UNCHANGED linkVars

\* start.rs:80: find_host_id(&host, &client).await?.0
FindHostReturn(res) ==
    /\ pc = "find_host"
    /\ IF res.ok
       THEN host' = res.host /\ Goto("config")
       ELSE host' = host /\ Return(Error("find_host_id", ""))
    /\ UNCHANGED <<cmd, provider_ref, suitable_hosts, config_json, calls, ack,
                   clock, waitResult, matched, discarded>>
    /\ UNCHANGED <<early, scale>>
    /\ UNCHANGED linkVars

PickHostLast(bids) ==
    IF bids = <<>> THEN [ok |-> FALSE, err |-> Error("no_suitable_hosts", "")]
    ELSE IF ParseHostId(bids[Len(bids)].host_id).ok
         THEN [ok |-> TRUE, host |-> ParseHostId(bids[Len(bids)].host_id).host]
         ELSE [ok |-> FALSE, err |-> Error("parse_host_id", bids[Len(bids)].host_id)]

PickHostOrFirstKnown(bids) ==
    IF bids = <<>> THEN [ok |-> TRUE, host |-> "N1"]
    ELSE IF ParseHostId(bids[1].host_id).ok
         THEN [ok |-> TRUE, host |-> ParseHostId(bids[1].host_id).host]
         ELSE [ok |-> FALSE, err |-> Error("parse_host_id", bids[1].host_id)]

\* start.rs:96-102: the host of the first bid, or the failure.
PickHost(bids) ==
    IF bids = <<>> THEN [ok |-> FALSE, err |-> Error("no_suitable_hosts", "")]
    ELSE IF ParseHostId(bids[1].host_id).ok
         THEN [ok |-> TRUE, host |-> ParseHostId(bids[1].host_id).host]
         ELSE [ok |-> FALSE, err |-> Error("parse_host_id", bids[1].host_id)]

\* start.rs:82-103: the auction returned.
AuctionReturn(res) ==
    /\ pc = "auction"
    /\ IF ~res.ok
       THEN /\ Return(Error("auction", ""))
            /\ UNCHANGED <<host, suitable_hosts>>
       ELSE /\ suitable_hosts' = Some(res.bids)
            /\ IF PickHost(res.bids).ok
               THEN host' = PickHost(res.bids).host /\ Goto("config")
               ELSE host' = host /\ Return(PickHost(res.bids).err)
    /\ UNCHANGED <<cmd, provider_ref, config_json, calls, ack, clock,
                   waitResult, matched, discarded>>
    /\ UNCHANGED <<early, scale>>
    /\ UNCHANGED linkVars

\* start.rs:106-120 with the configuration file read as `file`; the run then
\* asks for the event channel (start.rs:122).
LoadConfigThenDispatch(file) ==
    /\ pc = "config"
    /\ IF ~cmd.config_json.some
       THEN config_json' = None /\ Goto("dispatch")
       ELSE IF file = "unreadable"
       THEN config_json' = config_json /\ Return(Error("config_read", ""))
       ELSE IF file = "not json"
       THEN config_json' = config_json /\ Return(Error("config_json", cmd.config_json.val))
       ELSE config_json' = Some(file) /\ Goto("dispatch")
    /\ UNCHANGED <<cmd, provider_ref, host, suitable_hosts, calls, ack, clock,
                   waitResult, matched, discarded>>
    /\ UNCHANGED <<early, scale>>
    /\ UNCHANGED linkVars

LoadConfig(file) ==
    /\ pc = "config"
    /\ IF ~cmd.config_json.some
       THEN config_json' = None /\ Goto("subscribe")
       ELSE IF file = "unreadable"
       THEN config_json' = config_json /\ Return(Error("config_read", ""))
       ELSE IF file = "not json"
       THEN config_json' = config_json /\ Return(Error("config_json", cmd.config_json.val))
       ELSE config_json' = Some(file) /\ Goto("subscribe")
    /\ UNCHANGED <<cmd, provider_ref, host, suitable_hosts, calls, ack, clock,
                   waitResult, matched, discarded>>
    /\ UNCHANGED <<early, scale>>
    /\ UNCHANGED linkVars

\* start.rs:122-129: events_receiver returned: the subscription is established
\* (or the run fails).
SubscribeReturn(established) ==
    /\ pc = "subscribe"
    /\ IF established
       THEN /\ subscribed' = TRUE
            /\ queue' = <<>>
            /\ calls' = Append(calls, [call |-> "events_receiver",
                                       kinds |-> SubscribedKinds])
            /\ pc' = "dispatch"
            /\ outcome' = outcome
       ELSE /\ Return(Error("events_receiver", ""))
            /\ calls' = calls
    /\ UNCHANGED <<cmd, provider_ref, host, suitable_hosts, config_json, ack,
                   clock, waitResult, matched, discarded>>
    /\ UNCHANGED <<early, scale>>
    /\ UNCHANGED linkVars

\* start.rs:131-139: the start command is sent to the host.
Dispatch ==
    /\ pc = "dispatch"
    /\ calls' = Append(calls, [call |-> "start_provider", host |-> host,
                               provider_ref |-> provider_ref,
                               link_name |-> Some(cmd.link_name),
                               config_json |-> config_json])
    /\ Goto("await_ack")
    /\ UNCHANGED <<cmd, provider_ref, host, suitable_hosts, config_json, ack,
                   clock, waitResult, matched, discarded>>
    /\ UNCHANGED <<early, scale>>
    /\ UNCHANGED linkVars

AckDecisionIgnoreSkip(a, skip_wait) ==
    IF ~a.accepted THEN "bail" ELSE "wait"

AckDecisionSkipFirst(a, skip_wait) ==
    IF skip_wait THEN "return" ELSE IF ~a.accepted THEN "bail" ELSE "wait"

\* start.rs:148-165: what the run does with the ack.
AckDecision(a, skip_wait) ==
    IF ~a.accepted THEN "bail" ELSE IF skip_wait THEN "return" ELSE "wait"

\* start.rs:153-162: the fields of the "request received" output.
ReceivedFields ==
    [provider_ref |-> provider_ref, link_name |-> cmd.link_name, host_id |-> host]

\* A variant whose wait reads a receiver opened when the wait begins: what
\* was delivered before is not seen.
AckReturnFreshReceiver(res) ==
    /\ pc = "await_ack"
    /\ IF ~res.ok
       THEN /\ Return(Error("start_provider", ""))
            /\ UNCHANGED <<ack, calls, clock>>
       ELSE /\ ack' = Some(res.ack)
            /\ IF AckDecision(res.ack, cmd.skip_wait) = "bail"
               THEN /\ Return(Error("ack_not_accepted", res.ack.error))
                    /\ UNCHANGED <<calls, clock>>
               ELSE IF AckDecision(res.ack, cmd.skip_wait) = "return"
               THEN /\ Return(Output("request_received", ReceivedFields))
                    /\ UNCHANGED <<calls, clock>>
               ELSE /\ calls' = Append(calls, [call |-> "wait_for_provider_start_event",
                                               host |-> host,
                                               provider_ref |-> provider_ref])
                    /\ clock' = 0
                    /\ pc' = "waiting"
                    /\ queue' = <<>>
                    /\ UNCHANGED <<outcome, subscribed>>
    /\ UNCHANGED <<cmd, provider_ref, host, suitable_hosts, config_json,
                   waitResult, matched, discarded>>
    /\ UNCHANGED <<early, scale>>
    /\ UNCHANGED linkVars

\* A variant that sends the request a second time after a refused
\* acknowledgement.
AckReturnRetry(res) ==
    /\ pc = "await_ack"
    /\ IF ~res.ok
       THEN /\ Return(Error("start_provider", ""))
            /\ UNCHANGED <<ack, calls, clock>>
       ELSE /\ ack' = Some(res.ack)
            /\ IF AckDecision(res.ack, cmd.skip_wait) = "bail"
               THEN /\ IF Len(calls) < 4
                       THEN Goto("dispatch")
                       ELSE Return(Error("ack_not_accepted", res.ack.error))
                    /\ UNCHANGED <<calls, clock>>
               ELSE IF AckDecision(res.ack, cmd.skip_wait) = "return"
               THEN /\ Return(Output("request_received", ReceivedFields))
                    /\ UNCHANGED <<calls, clock>>
               ELSE /\ calls' = Append(calls, [call |-> "wait_for_provider_start_event",
                                               host |-> host,
                                               provider_ref |-> provider_ref])
                    /\ clock' = 0
                    /\ Goto("waiting")
    /\ UNCHANGED <<cmd, provider_ref, host, suitable_hosts, config_json,
                   waitResult, matched, discarded>>
    /\ UNCHANGED <<early, scale>>
    /\ UNCHANGED linkVars

\* start.rs:139-170: start_provider returned.
AckReturn(res) ==
    /\ pc = "await_ack"
    /\ IF ~res.ok
       THEN /\ Return(Error("start_provider", ""))
            /\ UNCHANGED <<ack, calls, clock>>
       ELSE /\ ack' = Some(res.ack)
            /\ IF AckDecision(res.ack, cmd.skip_wait) = "bail"
               THEN /\ Return(Error("ack_not_accepted", res.ack.error))
                    /\ UNCHANGED <<calls, clock>>
               ELSE IF AckDecision(res.ack, cmd.skip_wait) = "return"
               THEN /\ Return(Output("request_received", ReceivedFields))
                    /\ UNCHANGED <<calls, clock>>
               ELSE /\ calls' = Append(calls, [call |-> "wait_for_provider_start_event",
                                               host |-> host,
                                               provider_ref |-> provider_ref])
                    /\ clock' = 0
                    /\ Goto("waiting")
    /\ UNCHANGED <<cmd, provider_ref, host, suitable_hosts, config_json,
                   waitResult, matched, discarded>>
    /\ UNCHANGED <<early, scale>>
    /\ UNCHANGED linkVars

-----------------------------------------------------------------------------
(* The wait: events are read off the receiver until one matches or the      *)
(* window has elapsed                                                       *)

\* The wait reads the next event of the receiver: a match ends the wait, any
\* other event is discarded.
WaitRecv ==
    /\ pc = "waiting"
    /\ queue # <<>>
    /\ LET e == Head(queue)
           r == CheckEvent(e, host, provider_ref)
       IN  /\ queue' = Tail(queue)
           /\ IF r = Continue
              THEN /\ discarded' = TRUE
                   /\ UNCHANGED <<pc, waitResult, matched>>
              ELSE /\ waitResult' = Some(r)
                   /\ matched' = Some(e)
                   /\ pc' = "wait_returned"
                   /\ discarded' = discarded
    /\ UNCHANGED <<cmd, provider_ref, host, suitable_hosts, config_json,
                   subscribed, calls, ack, clock, outcome>>
    /\ UNCHANGED <<early, scale>>
    /\ UNCHANGED linkVars

\* Time passes while the run waits.
Tick ==
    /\ pc = "waiting"
    /\ clock < WaitTicks
    /\ clock' = clock + 1
    /\ UNCHANGED <<pc, cmd, provider_ref, host, suitable_hosts, config_json,
                   subscribed, queue, calls, ack, waitResult, matched,
                   discarded, outcome>>
    /\ UNCHANGED <<early, scale>>
    /\ UNCHANGED linkVars

\* The window has elapsed and no matching event has arrived: the wait is
\* cancelled and returns an error. An event that arrived in the window is
\* read by WaitRecv.
WaitTimeout ==
    /\ pc = "waiting"
    /\ clock = WaitTicks
    /\ \A i \in DOMAIN queue : CheckEvent(queue[i], host, provider_ref) = Continue
    /\ waitResult' = Some(TimedOut)
    /\ pc' = "wait_returned"
    /\ UNCHANGED <<cmd, provider_ref, host, suitable_hosts, config_json,
                   subscribed, queue, calls, ack, clock, matched, discarded,
                   outcome>>
    /\ UNCHANGED <<early, scale>>
    /\ UNCHANGED linkVars

\* The lattice publishes an event; the receiver gets it if it is open and the
\* event is of a kind it subscribed to. Once the wait has returned the run
\* has no await left (start.rs:179-209) and drops the receiver unread, so
\* deliveries after that point are left out.
Publish(e) ==
    /\ subscribed
    /\ pc # "wait_returned"
    /\ e.kind \in SubscribedKinds
    /\ Len(queue) < MaxQueue
    /\ queue' = Append(queue, e)
    /\ early' = IF /\ ~early.some
                   /\ pc \in {"dispatch", "await_ack"}
                   /\ CheckEvent(e, host, provider_ref) # Continue
                THEN Some(e)
                ELSE early
    /\ UNCHANGED <<pc, cmd, provider_ref, host, suitable_hosts, config_json,
                   subscribed, calls, ack, clock, waitResult, matched,
                   discarded, scale, outcome>>
    /\ UNCHANGED linkVars

WaitOutputFromCommand(res, c, ref, h) ==
    IF res.tag = "Elapsed" THEN Error("timed_out", <<ref, h>>)
    ELSE IF res.tag = "Success"
    THEN Output("provider_started",
                [provider_ref |-> ref,
                 provider_id |-> res.info.provider_id,
                 link_name |-> c.link_name,
                 contract_id |-> res.info.contract_id,
                 host_id |-> h])
    ELSE Error("start_failed", res.err)

\* start.rs:171-209: the run's result from the wait's.
WaitOutput(res, c, ref, h) ==
    IF res.tag = "Elapsed" THEN Error("timed_out", <<ref, h>>)
    ELSE IF res.tag = "Success"
    THEN Output("provider_started",
                [provider_ref |-> res.info.provider_ref,
                 provider_id |-> res.info.provider_id,
                 link_name |-> res.info.link_name,
                 contract_id |-> res.info.contract_id,
                 host_id |-> res.info.host_id])
    ELSE Error("start_failed", res.err)

FinishWaitRetry ==
    /\ pc = "wait_returned"
    /\ IF waitResult.val.tag = "Elapsed"
       THEN /\ pc' = "waiting"
            /\ clock' = 0
            /\ waitResult' = None
            /\ UNCHANGED <<outcome, subscribed, queue>>
       ELSE /\ Return(WaitOutput(waitResult.val, cmd, provider_ref, host))
            /\ UNCHANGED <<clock, waitResult>>
    /\ UNCHANGED <<cmd, provider_ref, host, suitable_hosts, config_json, calls,
                   ack, matched, discarded>>
    /\ UNCHANGED <<early, scale>>
    /\ UNCHANGED linkVars

\* start.rs:165-209: the wait returned and the run returns.
FinishWait ==
    /\ pc = "wait_returned"
    /\ Return(WaitOutput(waitResult.val, cmd, provider_ref, host))
    /\ UNCHANGED <<cmd, provider_ref, host, suitable_hosts, config_json, calls,
                   ack, clock, waitResult, matched, discarded>>
    /\ UNCHANGED <<early, scale>>
    /\ UNCHANGED linkVars

-----------------------------------------------------------------------------
(* handle_scale_actor (crates/wash-lib/src/cli/scale.rs), one step per      *)
(* await                                                                    *)

\* What scale_actor may return for the request (host_id, actor_ref,
\* skip_wait): an error, or ActorScaledInfo. The actor's identifier is known
\* from the confirming event only; a request that skips the wait has none.
ScaleActorResults(host_id, actor_ref, skip_wait) ==
    {[ok |-> FALSE]} \cup
    {[ok |-> TRUE,
      info |-> [host_id |-> host_id, actor_ref |-> actor_ref, actor_id |-> id]] :
        id \in IF skip_wait THEN {None} ELSE {None, Some("MACTOR")}}

\* scale.rs:106-127: the text and the fields of the CommandOutput.
ScaleOutput(info, c) ==
    Output(IF c.skip_wait THEN "scale_request_received" ELSE "actor_scaled",
           [actor_ref |-> info.actor_ref, actor_id |-> info.actor_id,
            host_id |-> info.host_id, max_instances |-> c.max_instances])

\* The variables of handle_start_provider a run of handle_scale_actor does
\* not have.
startOnly ==
    <<cmd, provider_ref, host, suitable_hosts, config_json, ack, clock,
      waitResult, matched, discarded, early>>

\* handle_scale_actor is called with cmd = c.
ScaleRun(c) ==
    /\ pc = "idle"
    /\ scale' = [cmd |-> c, actor_ref |-> <<>>, host |-> ""]
    /\ Goto("scale_connect")
    /\ UNCHANGED <<calls, startOnly>>
    /\ UNCHANGED linkVars

\* scale.rs:72-82: the client is there (or not); the reference is normalized
\* as in start.rs:73-77 and the host is looked up.
ScaleConnectReturn(connected) ==
    /\ pc = "scale_connect"
    /\ IF ~connected
       THEN /\ Return(Error("connect", ""))
            /\ UNCHANGED <<scale, calls>>
       ELSE /\ scale' = [scale EXCEPT !.actor_ref = Normalize(scale.cmd.actor_ref)]
            /\ calls' = Append(calls, [call |-> "find_host_id",
                                       hint |-> scale.cmd.host_id])
            /\ Goto("scale_find_host")
    /\ UNCHANGED startOnly
    /\ UNCHANGED linkVars

\* scale.rs:82-104: find_host_id returned; the annotations are converted and
\* scale_actor is called.
ScaleFindHostReturn(res, labels_ok) ==
    /\ pc = "scale_find_host"
    /\ IF ~res.ok
       THEN /\ Return(Error("find_host_id", ""))
            /\ UNCHANGED <<scale, calls>>
       ELSE /\ scale' = [scale EXCEPT !.host = res.host]
            /\ IF scale.cmd.annotations.some /\ ~labels_ok
               THEN /\ Return(Error("annotations", ""))
                    /\ calls' = calls
               ELSE /\ calls' = Append(calls, [call |-> "scale_actor",
                                               host |-> res.host,
                                               actor_ref |-> scale.actor_ref,
                                               count |-> scale.cmd.max_instances,
                                               skip_wait |-> scale.cmd.skip_wait,
                                               annotations |-> scale.cmd.annotations])
                    /\ Goto("scale_actor")
    /\ UNCHANGED startOnly
    /\ UNCHANGED linkVars

\* scale.rs:104-127: scale_actor returned.
ScaleActorReturn(res) ==
    /\ pc = "scale_actor"
    /\ IF ~res.ok
       THEN Return(Error("scale_actor", ""))
       ELSE Return(ScaleOutput(res.info, scale.cmd))
    /\ UNCHANGED <<scale, calls, startOnly>>
    /\ UNCHANGED linkVars

NextStart ==
    \/ \E c \in Commands : StartRun(c)
    \/ \E connected \in BOOLEAN, labels_ok \in BOOLEAN : ConnectReturn(connected, labels_ok)
    \/ \E res \in HostLookups : FindHostReturn(res)
    \/ \E res \in AuctionResults : AuctionReturn(res)
    \/ \E file \in ConfigFiles : LoadConfig(file)
    \/ \E established \in BOOLEAN : SubscribeReturn(established)
    \/ Dispatch
    \/ \E res \in AckResults : AckReturn(res)
    \/ WaitRecv
    \/ Tick
    \/ WaitTimeout
    \/ \E e \in Events : Publish(e)
    \/ FinishWait
    \/ \E c \in ScaleCommands : ScaleRun(c)
    \/ \E connected \in BOOLEAN : ScaleConnectReturn(connected)
    \/ \E res \in HostLookups, labels_ok \in BOOLEAN : ScaleFindHostReturn(res, labels_ok)
    \/ \E res \in ScaleActorResults(scale.host, scale.actor_ref, scale.cmd.skip_wait) :
          ScaleActorReturn(res)

-----------------------------------------------------------------------------
(* Specifications                                                           *)

Init == InitLinks /\ InitStart

\* The registry under any sequence of insert, remove and iter calls.
SpecLinks == Init /\ [][NextLinks]_vars

\* One run of handle_start_provider against the lattice.
SpecStart == Init /\ [][NextStart]_vars

\* The same, where time passes, the timer fires and the task is scheduled.
FairSpecStart ==
    /\ SpecStart
    /\ WF_vars(Tick)
    /\ WF_vars(WaitRecv)
    /\ WF_vars(WaitTimeout)
    /\ WF_vars(FinishWait)

-----------------------------------------------------------------------------
(* Properties of the link registry (under SpecLinks)                        *)

\* Two links are of one slot: equal source_id, name, wit_namespace, wit_package.
SameSlot(l1, l2) ==
    /\ l1.source_id = l2.source_id
    /\ l1.name = l2.name
    /\ l1.wit_namespace = l2.wit_namespace
    /\ l1.wit_package = l2.wit_package

\* The interface set of a link.
InterfacesOf(l) == {l.interfaces[i] : i \in 1..Len(l.interfaces)}

\* The links iter() yields of the slot of `l`, for the map m.
SlotLinks(m, l) == {x \in Iter(m) : SameSlot(x, l)}

LastInsert(l) == op.kind = "insert" /\ op.link = l

\* C1 (invariant I1): in every reachable state, no interface identifier
\* belongs to two stored links of the same slot.
C1_SlotInterfacesDisjoint ==
    \A k \in DOMAIN links : \A v1, v2 \in links[k] :
        v1 # v2 => v1.interfaces \cap v2.interfaces = {}

\* Reached: a slot that holds two links with non-empty interface sets.
C1_Witness ==
    /\ op.kind = "insert"
    /\ \E k \in DOMAIN links : \E v1, v2 \in links[k] :
          v1 # v2 /\ v1.interfaces # {} /\ v2.interfaces # {}

\* C2: when l1 is stored and l2, of the same slot and sharing an interface
\* with l1, is inserted, the insert returns the conflict error and the
\* registry is what it was (a slot that held only l1 still holds only l1).
C2_OverlapRejected ==
    \A l1, l2 \in LinkDefs :
        ( /\ LastInsert(l2)
          /\ SameSlot(l1, l2)
          /\ InterfacesOf(l1) \cap InterfacesOf(l2) # {}
          /\ l1 \in Iter(prev) )
        => /\ ret = Err(ConflictMsg)
           /\ links = prev
           /\ (SlotLinks(prev, l1) = {l1} => SlotLinks(links, l1) = {l1})

\* Reached: l2 was refused against a slot holding only a different link l1,
\* while another slot holds links too.
C2_Witness ==
    \E l1, l2 \in LinkDefs :
        /\ LastInsert(l2)
        /\ l1 # l2
        /\ SameSlot(l1, l2)
        /\ InterfacesOf(l1) \cap InterfacesOf(l2) # {}
        /\ SlotLinks(prev, l1) = {l1}
        /\ ret.tag = "Err"
        /\ \E x \in Iter(links) : ~SameSlot(x, l1)

\* C3: an insert into a vacant slot succeeds; and when a slot holds only l1
\* and l2, of the same slot with interfaces disjoint from l1's, is inserted,
\* the insert succeeds and iter() yields both.
C3_DisjointBothStored ==
    \A l2 \in LinkDefs :
        LastInsert(l2) =>
            /\ SlotLinks(prev, l2) = {} => (ret = Ok /\ SlotLinks(links, l2) = {l2})
            /\ \A l1 \in LinkDefs :
                  ( /\ SlotLinks(prev, l2) = {l1}
                    /\ InterfacesOf(l1) \cap InterfacesOf(l2) = {} )
                  => /\ ret = Ok
                     /\ SlotLinks(links, l2) = {l1, l2}
                     /\ IterCount(links, l1) = 1
                     /\ IterCount(links, l2) = 1

\* Reached: two different links of one slot, both with interfaces, stored by
\* two inserts.
C3_Witness ==
    \E l1, l2 \in LinkDefs :
        /\ LastInsert(l2)
        /\ l1 # l2
        /\ InterfacesOf(l1) # {} /\ InterfacesOf(l2) # {}
        /\ SlotLinks(prev, l2) = {l1}
        /\ SlotLinks(links, l2) = {l1, l2}
        /\ ret = Ok

\* C4: inserting a link equal to a stored one leaves the registry as it was,
\* and iter() yields that link exactly once.
C4_ReinsertNoOp ==
    \A l \in LinkDefs :
        (LastInsert(l) /\ l \in Iter(prev))
        => /\ links = prev
           /\ IterCount(links, l) = 1

\* Reached: a stored link was inserted again, next to another link of its slot.
C4_Witness ==
    \E l \in LinkDefs :
        /\ LastInsert(l)
        /\ l \in Iter(prev)
        /\ Cardinality(SlotLinks(prev, l)) >= 2

\* C5: remove(key) on a slot that holds links deletes them all and returns
\* true; on a key with no slot it returns false and changes nothing; the key
\* built from a link and the key built from the four strings do the same.
C5_RemoveDeletesSlot ==
    op.kind = "remove" =>
        LET stored == SlotLinks(prev, op.key.link)
        IN  IF stored # {}
            THEN /\ ret = [tag |-> "Bool", val |-> TRUE]
                 /\ stored \cap Iter(links) = {}
                 /\ SlotLinks(links, op.key.link) = {}
            ELSE /\ ret = [tag |-> "Bool", val |-> FALSE]
                 /\ links = prev

\* Reached: a key built from the four strings removed a slot of two links or
\* more.
C5_Witness ==
    /\ op.kind = "remove"
    /\ op.form = "new"
    /\ Cardinality(SlotLinks(prev, op.key.link)) >= 2
    /\ ret = [tag |-> "Bool", val |-> TRUE]
    /\ links # EmptyLinks

\* Two links equal in every field, with the same set of interfaces.
EqualEntry(l1, l2) ==
    /\ SameSlot(l1, l2)
    /\ l1.target = l2.target
    /\ InterfacesOf(l1) = InterfacesOf(l2)

\* C18: insert of a link equal in all fields and in interface set to a stored
\* entry returns Ok only when its interface set is empty, and the conflict
\* error when it is not; the registry is unchanged in both cases.
C18_ReinsertResult ==
    \A l \in LinkDefs :
        (LastInsert(l) /\ \E x \in Iter(prev) : EqualEntry(x, l))
        => /\ (ret = Ok) <=> (InterfacesOf(l) = {})
           /\ InterfacesOf(l) # {} => ret = Err(ConflictMsg)
           /\ links = prev
           /\ Iter(links) = Iter(prev)

\* Reached: a stored link with interfaces was inserted again and refused.
C18_Witness ==
    \E l \in LinkDefs :
        /\ LastInsert(l)
        /\ l \in Iter(prev)
        /\ InterfacesOf(l) # {}
        /\ ret = Err(ConflictMsg)

\* The links of the map m stored outside the slot of `l`, each with the
\* number of times iter() yields it.
OtherSlots(m, l) == {<<x, IterCount(m, x)>> : x \in {y \in Iter(m) : ~SameSlot(y, l)}}

\* C19: insert and remove, succeed or fail, leave every slot of another key
\* as it was; iter changes nothing; a link never conflicts with a stored link
\* of another key, whatever interfaces the two share.
C19_FrameOfOperations ==
    /\ op.kind = "insert" =>
          /\ OtherSlots(links, op.link) = OtherSlots(prev, op.link)
          /\ (\A x \in SlotLinks(prev, op.link) :
                 InterfacesOf(x) \cap InterfacesOf(op.link) = {}) => ret = Ok
    /\ op.kind = "remove" =>
          OtherSlots(links, op.key.link) = OtherSlots(prev, op.key.link)
    /\ op.kind = "iter" => links = prev

\* Reached: a link was accepted while another slot holds a link with the same,
\* non-empty, interfaces.
C19_Witness ==
    /\ op.kind = "insert"
    /\ ret = Ok
    /\ InterfacesOf(op.link) # {}
    /\ \E x \in Iter(links) :
          /\ ~SameSlot(x, op.link)
          /\ InterfacesOf(x) = InterfacesOf(op.link)
          /\ x \in Iter(prev)

\* C20: no slot of the map is empty, and remove(key) returns true exactly
\* when iter() yielded a link of that key just before the call.
C20_NoEmptySlot ==
    /\ \A k \in DOMAIN links : links[k] # {}
    /\ \A k \in DOMAIN prev : prev[k] # {}
    /\ op.kind = "remove" =>
          (ret = [tag |-> "Bool", val |-> TRUE])
              <=> (\E x \in Iter(prev) : SameSlot(x, op.key.link))

\* Reached: remove of a key with no slot returned false while the registry
\* holds links of another key.
C20_Witness ==
    /\ op.kind = "remove"
    /\ ret = [tag |-> "Bool", val |-> FALSE]
    /\ prev # EmptyLinks
    /\ links = prev

-----------------------------------------------------------------------------
(* Properties of handle_start_provider (under SpecStart, FairSpecStart)     *)

\* The positions in `calls` of the requests named `name`.
CallIndex(name) == {i \in DOMAIN calls : calls[i].call = name}

WaitCall == "wait_for_provider_start_event"

\* C6: whenever the start command has been sent and confirmation is
\* requested, the subscription was established before the command was sent.
C6_SubscribedBeforeDispatch ==
    ~cmd.skip_wait =>
        \A i \in CallIndex("start_provider") :
            \E j \in CallIndex("events_receiver") : j < i

\* Reached: the command has been sent in a run that wants confirmation.
C6_Witness ==
    /\ ~cmd.skip_wait
    /\ pc = "await_ack"
    /\ CallIndex("start_provider") # {}

\* C7: with no host hint, an auction that returns no bid ends the run with
\* the "no suitable hosts" failure, and the command is never sent nor any
\* event waited for.
C7_NoBidsNoDispatch ==
    (~cmd.host_id.some /\ suitable_hosts = Some(<<>>)) =>
        /\ pc = "done"
        /\ outcome = Error("no_suitable_hosts", "")
        /\ CallIndex("start_provider") = {}
        /\ CallIndex(WaitCall) = {}
        /\ ~waitResult.some

\* Reached: the auction was held and returned no bid.
C7_Witness ==
    /\ ~cmd.host_id.some
    /\ CallIndex("perform_provider_auction") # {}
    /\ suitable_hosts = Some(<<>>)
    /\ pc = "done"

\* C8: an ack that is not accepted ends the run with the ack's error: no
\* wait is started, no event is read, the command was sent once only,
\* whatever skip_wait is.
C8_RejectedAckFails ==
    (ack.some /\ ~ack.val.accepted) =>
        /\ pc = "done"
        /\ outcome = Error("ack_not_accepted", ack.val.error)
        /\ CallIndex(WaitCall) = {}
        /\ ~waitResult.some /\ ~matched.some /\ ~discarded
        /\ Cardinality(CallIndex("start_provider")) = 1

\* Reached: the ack was not accepted in a run that asked to skip the wait.
C8_Witness ==
    /\ ack.some /\ ~ack.val.accepted
    /\ cmd.skip_wait
    /\ pc = "done"

\* C9: the wait ends on a timeout or on an event of the run's host and
\* reference; a success event gives the run's success with that event's
\* fields, a failure event the failure with the host's error; an event that
\* was discarded did not end the wait.
C9_WaitEndsOnMatch ==
    /\ matched.some <=> (waitResult.some /\ waitResult.val.tag # "Elapsed")
    /\ (waitResult.some /\ waitResult.val.tag = "Elapsed") => clock = WaitTicks
    /\ matched.some =>
          /\ matched.val.host_id = host
          /\ matched.val.provider_ref = provider_ref
          /\ matched.val.kind = "provider_started" <=> waitResult.val.tag = "Success"
          /\ matched.val.kind = "provider_start_failed" <=> waitResult.val.tag = "Failure"
    /\ (pc = "done" /\ matched.some) =>
          IF matched.val.kind = "provider_started"
          THEN outcome = Output("provider_started",
                                [provider_ref |-> matched.val.provider_ref,
                                 provider_id |-> matched.val.provider_id,
                                 link_name |-> matched.val.link_name,
                                 contract_id |-> matched.val.contract_id,
                                 host_id |-> matched.val.host_id])
          ELSE outcome = Error("start_failed", matched.val.error)
    /\ (discarded /\ ~waitResult.some) => pc = "waiting"

\* Reached: the run succeeded on a matching event after dropping another.
C9_Witness ==
    /\ pc = "done"
    /\ discarded
    /\ matched.some
    /\ outcome.status = "Ok"
    /\ outcome.kind = "provider_started"

\* C10: a run that waits for confirmation ends; when no matching event ended
\* the wait, it ends with the timeout failure, which is not the failure of a
\* rejected ack.
C10_WaitTerminates ==
    /\ (pc = "waiting") ~> (pc = "done")
    /\ [](( /\ pc = "done"
            /\ CallIndex(WaitCall) # {}
            /\ ~matched.some )
          => /\ outcome = Error("timed_out", <<provider_ref, host>>)
             /\ \A a \in Acks : outcome.kind # Error("ack_not_accepted", a.error).kind)

\* Reached: the run timed out while events of other commands kept arriving.
C10_Witness ==
    /\ pc = "done"
    /\ discarded
    /\ outcome.status = "Err"
    /\ outcome.kind = "timed_out"

\* C11: when skip-wait was requested and the ack is accepted, the run is done
\* with the "request received" output; it has not called the wait, read an
\* event or let the clock run, and the output has no provider_id and no
\* contract_id. In a run of handle_scale_actor that skips the wait, the
\* output is the "request received" one and carries no actor identifier.
C11_SkipWaitShortCircuit ==
    /\ (cmd.skip_wait /\ ack.some /\ ack.val.accepted) =>
          /\ pc = "done"
          /\ outcome = Output("request_received",
                              [provider_ref |-> provider_ref,
                               link_name |-> cmd.link_name,
                               host_id |-> host])
          /\ DOMAIN outcome.fields \cap {"provider_id", "contract_id"} = {}
          /\ CallIndex(WaitCall) = {}
          /\ ~waitResult.some
          /\ ~matched.some
          /\ ~discarded
          /\ clock = 0
    /\ (scale.cmd.skip_wait /\ pc = "done" /\ outcome.status = "Ok") =>
          /\ outcome.kind = "scale_request_received"
          /\ outcome.fields.actor_id = None

\* Reached: a skip-wait run whose ack was accepted while a matching event
\* was already in the receiver.
C11_Witness ==
    /\ cmd.skip_wait
    /\ ack.some
    /\ ack.val.accepted
    /\ early.some
    /\ outcome.status = "Ok"

\* C13: in every run the auction is requested at most once and the command
\* is sent at most once; after a refused ack, an empty auction, a failure
\* event or a timeout the run is over (or is returning the wait's result)
\* with an error.
C13_NoInternalRetries ==
    /\ Cardinality(CallIndex("perform_provider_auction")) <= 1
    /\ Cardinality(CallIndex("start_provider")) <= 1
    /\ Cardinality(CallIndex("scale_actor")) <= 1
    /\ Cardinality(CallIndex(WaitCall)) <= 1
    /\ (ack.some /\ ~ack.val.accepted) =>
          pc = "done" /\ outcome = Error("ack_not_accepted", ack.val.error)
    /\ suitable_hosts = Some(<<>>) =>
          pc = "done" /\ outcome = Error("no_suitable_hosts", "")
    /\ (waitResult.some /\ waitResult.val.tag \in {"Failure", "Elapsed"}) =>
          /\ pc \in {"wait_returned", "done"}
          /\ pc = "done" => outcome.status = "Err"
    /\ pc = "done" => outcome # NoOutcome

\* Reached: the host refused the command of a run that held an auction.
C13_Witness ==
    /\ pc = "done"
    /\ ack.some
    /\ ~ack.val.accepted
    /\ Cardinality(CallIndex("perform_provider_auction")) = 1
    /\ Cardinality(CallIndex("start_provider")) = 1

\* C14, as stated: in a run that skips the wait no subscription to the event
\* stream is opened, and a failure to subscribe does not fail the run.
C14_SubscribedOnlyIfWaiting ==
    cmd.skip_wait =>
        /\ CallIndex("events_receiver") = {}
        /\ ~subscribed
        /\ outcome # Error("events_receiver", "")

\* The run asked the Host Resolver / held an auction.
ResolverInvoked == CallIndex("find_host_id") # {}
AuctionInvoked == CallIndex("perform_provider_auction") # {}

\* With a host hint: no auction, the constraints are not read, the command
\* goes to the resolver's host, and a resolver failure ends the run with no
\* dispatch.
WithHint ==
    /\ ~AuctionInvoked
    /\ suitable_hosts = None
    /\ ~(outcome.status = "Err" /\ outcome.kind = "constraints")
    /\ \A i \in CallIndex("start_provider") : calls[i].host = host /\ host \in Hosts
    /\ outcome = Error("find_host_id", "") => CallIndex("start_provider") = {}

\* With no host hint: the resolver is not called and the command goes to the
\* host of the first bid.
WithoutHint ==
    /\ ~ResolverInvoked
    /\ \A i \in CallIndex("start_provider") :
          /\ suitable_hosts.some
          /\ suitable_hosts.val # <<>>
          /\ calls[i].host = suitable_hosts.val[1].host_id

\* C15, as stated: every finished run of the start command that reached host
\* selection has invoked exactly one of resolver and auction; the rest as in
\* WithHint and WithoutHint.
C15_ExactlyOneSelector ==
    provider_ref # <<>> =>
        /\ pc = "done" => (ResolverInvoked /\ ~AuctionInvoked) \/ (AuctionInvoked /\ ~ResolverInvoked)
        /\ IF cmd.host_id.some THEN WithHint ELSE WithoutHint

\* C15, amended: a run of the start command invokes at most one of resolver
\* and auction, each at most once, and exactly one of them in every run that
\* dispatches the command; a run with no host hint whose constraints cannot
\* be converted invokes neither. The rest as in WithHint and WithoutHint.
C15_HostSelection ==
    provider_ref # <<>> =>
        /\ ~(ResolverInvoked /\ AuctionInvoked)
        /\ Cardinality(CallIndex("find_host_id")) <= 1
        /\ Cardinality(CallIndex("perform_provider_auction")) <= 1
        /\ CallIndex("start_provider") # {} => ResolverInvoked \/ AuctionInvoked
        /\ (pc = "done" /\ ~ResolverInvoked /\ ~AuctionInvoked) =>
              /\ ~cmd.host_id.some
              /\ cmd.constraints.some
              /\ outcome = Error("constraints", "")
        /\ IF cmd.host_id.some THEN WithHint ELSE WithoutHint

\* Reached: with no hint, the command was sent to the host of the first of
\* two bids.
C15_Witness ==
    /\ ~cmd.host_id.some
    /\ suitable_hosts.some
    /\ Len(suitable_hosts.val) = 2
    /\ \E i \in CallIndex("start_provider") : calls[i].host = suitable_hosts.val[1].host_id

\* The reference a run must use for the caller's `raw`: prefixed with the
\* local-file scheme when it begins with "/", as it is otherwise.
WithFileScheme(raw) ==
    IF raw # <<>> /\ Head(raw) = "/" THEN <<"file://">> \o raw ELSE raw

\* The requests of the run that carry an artifact reference.
RefCalls == {i \in DOMAIN calls : "provider_ref" \in DOMAIN calls[i]}

\* C12: from the first request of a run on, its reference is the caller's
\* with the scheme prefix rule applied; the auction request, the dispatched
\* command and the wait's correlation key all carry that same string, the
\* event that ends the wait carries it, and so do the outputs; the same
\* holds of the reference handle_scale_actor passes to scale_actor.
C12_NormalizedOnce ==
    /\ calls # <<>> /\ cmd # NoCmd => provider_ref = WithFileScheme(cmd.provider_ref)
    /\ \A i \in RefCalls : calls[i].provider_ref = WithFileScheme(cmd.provider_ref)
    /\ matched.some => matched.val.provider_ref = WithFileScheme(cmd.provider_ref)
    /\ (outcome.status = "Ok" /\ cmd # NoCmd) =>
          outcome.fields.provider_ref = WithFileScheme(cmd.provider_ref)
    /\ (outcome.status = "Err" /\ outcome.kind = "timed_out") =>
          outcome.cause[1] = WithFileScheme(cmd.provider_ref)
    /\ calls # <<>> /\ scale.cmd # NoScaleCmd =>
          scale.actor_ref = WithFileScheme(scale.cmd.actor_ref)
    /\ \A i \in CallIndex("scale_actor") :
          calls[i].actor_ref = WithFileScheme(scale.cmd.actor_ref)

\* Reached: a run given a path held an auction, sent the command and ended
\* its wait on an event, the three carrying the prefixed reference.
C12_Witness ==
    /\ cmd.provider_ref # <<>>
    /\ Head(cmd.provider_ref) = "/"
    /\ CallIndex("perform_provider_auction") # {}
    /\ CallIndex("start_provider") # {}
    /\ CallIndex(WaitCall) # {}
    /\ matched.some
    /\ pc = "done"
    /\ \A i \in RefCalls : Head(calls[i].provider_ref) = "file://"

\* The run wants confirmation, its ack was accepted, and a matching success
\* event was the first matching event delivered between the subscription and
\* the start of the wait.
EarlySuccess ==
    /\ ~cmd.skip_wait
    /\ ack.some
    /\ ack.val.accepted
    /\ early.some
    /\ early.val.kind = "provider_started"

\* The output of a run confirmed by the event e.
StartedBy(e) ==
    Output("provider_started",
           [provider_ref |-> e.provider_ref, provider_id |-> e.provider_id,
            link_name |-> e.link_name, contract_id |-> e.contract_id,
            host_id |-> e.host_id])

\* C16: a matching success event delivered after the subscription was
\* established and before the wait began (before the command is sent, or
\* before its ack) is still there when the wait begins, is the event that
\* ends the wait, and the run ends with the success output of that event.
C16_EarlyEventKept ==
    /\ [](EarlySuccess =>
            /\ pc \in {"waiting", "wait_returned", "done"}
            /\ pc = "waiting" => \E i \in DOMAIN queue : queue[i] = early.val
            /\ pc = "wait_returned" =>
                  matched = early /\ waitResult.val.tag = "Success"
            /\ pc = "done" => outcome = StartedBy(early.val))
    /\ (EarlySuccess ~> (EarlySuccess /\ pc = "done" /\ outcome = StartedBy(early.val)))

\* Reached: the run ended with success on an event delivered before its wait
\* began.
C16_Witness ==
    /\ EarlySuccess
    /\ pc = "done"
    /\ matched = early
    /\ outcome = StartedBy(early.val)

\* C17, as stated: an event produced for another command never ends the wait
\* of this one. A provider_started event names the link of the command that
\* caused it, so one with another link name was caused by another command.
C17_OnlyOwnEvents ==
    (matched.some /\ matched.val.kind = "provider_started") =>
        matched.val.link_name = cmd.link_name

====
